---- MODULE Spec2Model ----
(***************************************************************************)
(* TargonHandler.createMessage (src/src/test/targon-test.ts, lines 61-388) *)
(* as a state machine: an async generator that the consumer drives with    *)
(* next(), that submits a chat-completion request, consumes the provider   *)
(* stream event by event, yields text fragments, retries once on a 503,    *)
(* and ends with a summary fragment or by raising.                         *)
(*                                                                         *)
(* Texts that the code only concatenates are TLA+ strings.  Texts that the *)
(* code searches with includes() (error messages) or parses with           *)
(* JSON.parse (tool-call arguments) are sequences of tokens.               *)
(***************************************************************************)
EXTENDS Integers, Sequences, FiniteSets, TLC

\* ------------------------------------------------------------------ bounds
\* Provider events one call consumes, primary and retry stream together.
MaxEvents == 3

\* The generators that exist on the one handler instance.
Calls == {1, 2}

\* ------------------------------------------------------- provider alphabet
Undefined == "<undefined>"

\* options.targonApiKey: absent, empty or set.
ApiKeys == {Undefined, "", "sn4_key"}

NoUsage == [present |-> FALSE, prompt_tokens |-> 0, completion_tokens |-> 0]

Usage(p, c) == [present |-> TRUE, prompt_tokens |-> p, completion_tokens |-> c]

\* One element of choices[0].delta.tool_calls: function.name and the
\* function.arguments text as a token sequence.
ToolDelta(n, a) == [name |-> n, arguments |-> a]

AskTool == "ask_followup_question"

\* A provider chunk.  kind "string": the chunk is a bare string (str).
\* choices: "none" (absent or empty), "string" (choices[0] is the string
\* c0) or "object" (delta / message / tool_calls are choices[0]'s fields).
\* top is chunk.content.  "" stands for an absent or empty text.
Chunk0 ==
  [kind |-> "object", str |-> "", choices |-> "object", c0 |-> "",
   delta |-> "", message |-> "", top |-> "", tools |-> <<>>,
   usage |-> NoUsage]

ArgsQ1 == <<"{", "Q1", "}">>

ArgsQ1Opt == <<"{", "Q1", "O", "}">>

ArgsEmptyQ == <<"{", "QE", "}">>

ArgsHead == <<"{", "Q1">>

ArgsTail == <<"}">>

ArgsQ2NoOpt == <<"{", "Q2", "OE", "}">>

\* What the provider sends in one run is drawn from one of three families:
\* chunk shapes and usage, tool-call deltas, or the client's errors.
Profiles == {"shapes", "tools", "errors"}

\* Chunks of the primary stream.
PrimaryEvents(p) ==
  IF p = "shapes"
  THEN { [Chunk0 EXCEPT !.delta = "Hel"],
         [Chunk0 EXCEPT !.delta = "lo", !.message = "Hel"],
         Chunk0,
         [Chunk0 EXCEPT !.message = "Hel"],
         [Chunk0 EXCEPT !.choices = "none", !.top = "lo"],
         [Chunk0 EXCEPT !.choices = "string", !.c0 = "Hel"],
         [Chunk0 EXCEPT !.kind = "string", !.choices = "none", !.str = "lo"],
         [Chunk0 EXCEPT !.choices = "none", !.usage = Usage(5, 2)],
         [Chunk0 EXCEPT !.delta = "lo", !.usage = Usage(3, 0)] }
  ELSE IF p = "tools"
  THEN { [Chunk0 EXCEPT !.delta = "lo"],
         [Chunk0 EXCEPT !.tools = <<ToolDelta(AskTool, ArgsQ1)>>],
         [Chunk0 EXCEPT !.delta = "Hel",
                        !.tools = <<ToolDelta(AskTool, ArgsQ1Opt)>>],
         [Chunk0 EXCEPT !.tools = <<ToolDelta(AskTool, ArgsHead)>>],
         [Chunk0 EXCEPT !.tools = <<ToolDelta(AskTool, ArgsTail)>>],
         [Chunk0 EXCEPT !.tools = <<ToolDelta("other_tool", ArgsQ1)>>],
         [Chunk0 EXCEPT !.tools = <<ToolDelta(AskTool, <<>>)>>],
         [Chunk0 EXCEPT !.tools = <<ToolDelta(AskTool, ArgsEmptyQ),
                                    ToolDelta(AskTool, ArgsQ2NoOpt)>>,
                        !.usage = Usage(1, 1)] }
  ELSE { [Chunk0 EXCEPT !.delta = "Hel"],
         [Chunk0 EXCEPT !.choices = "none", !.usage = Usage(5, 2)] }

\* Chunks of the retry stream.
RetryEvents(p) ==
  IF p = "shapes"
  THEN { [Chunk0 EXCEPT !.delta = "ok"],
         Chunk0,
         [Chunk0 EXCEPT !.message = "Hel"],
         [Chunk0 EXCEPT !.delta = "lo", !.usage = Usage(9, 9)] }
  ELSE IF p = "tools"
  THEN { [Chunk0 EXCEPT !.delta = "ok"],
         [Chunk0 EXCEPT !.tools = <<ToolDelta(AskTool, ArgsQ1)>>,
                        !.usage = Usage(9, 9)] }
  ELSE { [Chunk0 EXCEPT !.delta = "ok"] }

\* What the client throws: error.status ("" when absent) and error.message
\* as tokens.
Err(s, m) == [status |-> s, message |-> m]

Errors(p) ==
  IF p = "errors"
  THEN { Err("503", <<"503", "Service Unavailable">>),
         Err("503", <<"Service Unavailable">>),
         Err("", <<"upstream", "503">>),
         Err("401", <<"401", "Unauthorized">>),
         Err("401", <<"Unauthorized">>),
         Err("401", <<"authentication", "failed">>),
         Err("401", <<"Unauthorized", "503">>),
         Err("403", <<"403", "Forbidden">>),
         Err("404", <<"404", "Not Found">>),
         Err("429", <<"429", "Too Many Requests">>),
         Err("500", <<"500", "Internal Server Error">>),
         Err("502", <<"502", "Bad Gateway">>),
         Err("", <<"ECONNREFUSED">>) }
  ELSE { Err("503", <<"503", "Service Unavailable">>),
         Err("401", <<"401", "Unauthorized">>) }

\* --------------------------------------------------------- pure functions
\* String.prototype.includes on a tokenised text.
Includes(msg, tok) == \E i \in 1..Len(msg) : msg[i] = tok

\* ExtractContent that reads choices[0].delta.content only.
ExtractContentDeltaOnly(ch) ==
  IF ch.choices = "object" THEN ch.delta ELSE ""

\* Content extraction of the primary loop: the first non-empty of
\* choices[0].delta.content, choices[0].message.content, choices[0] itself
\* when it is a string; without choices, chunk.content, then the chunk
\* itself when it is a string.
ExtractContent(ch) ==
  IF ch.choices # "none"
  THEN IF ch.choices = "object" /\ ch.delta # "" THEN ch.delta
       ELSE IF ch.choices = "object" /\ ch.message # "" THEN ch.message
       ELSE IF ch.choices = "string" THEN ch.c0
       ELSE ""
  ELSE IF ch.top # "" THEN ch.top
  ELSE IF ch.kind = "string" THEN ch.str
  ELSE ""

\* Content extraction of the retry loop: choices[0].delta.content only.
RetryContent(ch) ==
  IF ch.choices = "object" /\ ch.delta # "" THEN ch.delta ELSE ""

\* chunk.choices[0]?.delta?.tool_calls
ToolCallsOf(ch) == IF ch.choices = "object" THEN ch.tools ELSE <<>>

QuestionTokens == {"Q1", "Q2", "QE"}

OptionTokens == {"O", "OE"}

QuestionText(t) ==
  IF t = "Q1" THEN "Pick one" ELSE IF t = "Q2" THEN "Why?" ELSE ""

OptionsValue(t) == IF t = "O" THEN <<"a", "b">> ELSE <<>>

ParseError == [ok |-> FALSE, question |-> "", options |-> <<>>]

\* JSON.parse of an arguments text: "{" members "}" with an optional
\* question member followed by an optional options member; anything else
\* (a head or a tail of such a text) is a SyntaxError.
JSONParse(s) ==
  IF Len(s) < 2 \/ s[1] # "{" \/ s[Len(s)] # "}" THEN ParseError
  ELSE LET m == SubSeq(s, 2, Len(s) - 1) IN
       IF m = <<>> THEN [ok |-> TRUE, question |-> "", options |-> <<>>]
       ELSE IF Len(m) = 1 /\ m[1] \in QuestionTokens
       THEN [ok |-> TRUE, question |-> QuestionText(m[1]), options |-> <<>>]
       ELSE IF Len(m) = 2 /\ m[1] \in QuestionTokens /\ m[2] \in OptionTokens
       THEN [ok |-> TRUE, question |-> QuestionText(m[1]),
             options |-> OptionsValue(m[2])]
       ELSE ParseError

RECURSIVE JsonItems(_)
JsonItems(a) ==
  IF a = <<>> THEN ""
  ELSE IF Len(a) = 1 THEN "\"" \o a[1] \o "\""
  ELSE "\"" \o a[1] \o "\"," \o JsonItems(Tail(a))

\* JSON.stringify of an array of strings.
JsonArray(a) == "[" \o JsonItems(a) \o "]"

NoJson ==
  [id |-> 0, content |-> "", tokensIn |-> 0, tokensOut |-> 0,
   tokensTotal |-> 0]

\* A yielded {type: "text", text}.  kind tells which yield statement
\* produced it; json is the object the summary text serialises.
Fragment(k, t, j) == [type |-> "text", kind |-> k, text |-> t, json |-> j]

ContentFragment(t) == Fragment("content", t, NoJson)

\* ToolCallText that leaves the options out.
ToolCallTextNoOptions(args) ==
  "<ask_followup_question>\n<question>" \o args.question \o "</question>"
    \o "\n</ask_followup_question>"

\* The tagged block of one ask_followup_question tool call.
ToolCallText(args) ==
  "<ask_followup_question>\n<question>" \o args.question \o "</question>"
    \o (IF Len(args.options) > 0
        THEN "\n<options>\n" \o JsonArray(args.options) \o "\n</options>"
        ELSE "")
    \o "\n</ask_followup_question>"

\* The fragments one tool call of a chunk yields: none unless the name is
\* ask_followup_question, the arguments parse and question is non-empty.
\* Empty arguments stand for {}.
ToolCallFragments(tc) ==
  IF tc.name # AskTool THEN <<>>
  ELSE LET args == IF tc.arguments = <<>>
                   THEN [ok |-> TRUE, question |-> "", options |-> <<>>]
                   ELSE JSONParse(tc.arguments) IN
       IF ~args.ok \/ args.question = "" THEN <<>>
       ELSE <<Fragment("tool", ToolCallText(args), NoJson)>>

RECURSIVE ToolFragmentsStopAtSkip(_)
\* ToolFragments that leaves the loop at the first tool call it skips.
ToolFragmentsStopAtSkip(tcs) ==
  IF tcs = <<>> THEN <<>>
  ELSE IF Head(tcs).name = AskTool /\ ToolCallFragments(Head(tcs)) = <<>>
  THEN <<>>
  ELSE ToolCallFragments(Head(tcs)) \o ToolFragmentsStopAtSkip(Tail(tcs))

RECURSIVE ToolFragments(_)
ToolFragments(tcs) ==
  IF tcs = <<>> THEN <<>>
  ELSE ToolCallFragments(Head(tcs)) \o ToolFragments(Tail(tcs))

\* The fragments the primary loop yields for one chunk, in yield order.
ChunkFragments(ch) ==
  (IF ExtractContent(ch) # "" THEN <<ContentFragment(ExtractContent(ch))>>
   ELSE <<>>)
    \o ToolFragments(ToolCallsOf(ch))

\* RetryChunkFragments that accumulates without yielding.
RetryChunkFragmentsNone(ch) == <<>>

\* The fragments the retry loop yields for one chunk.
RetryChunkFragments(ch) ==
  IF RetryContent(ch) # "" THEN <<ContentFragment(RetryContent(ch))>>
  ELSE <<>>

getApiMetrics(tin, tout) ==
  [tokensIn |-> tin, tokensOut |-> tout, tokensTotal |-> tin + tout]

\* TargonFormatResponse(response): the serialised summary (request id,
\* concatenated text, metrics) as the object its text decodes to.
TargonFormatResponse(rid, text, metrics) ==
  [id |-> rid, content |-> text, tokensIn |-> metrics.tokensIn,
   tokensOut |-> metrics.tokensOut, tokensTotal |-> metrics.tokensTotal]

SummaryFragment(rid, text, tin, tout) ==
  Fragment("summary", "",
           TargonFormatResponse(rid, text, getApiMetrics(tin, tout)))

\* Is503 that takes every 5xx status for the retry.
Is503Any5xx(e) ==
  e.status \in {"500", "502", "503"} \/ Includes(e.message, "503")

\* The test of the catch block that selects the simplified retry.
Is503(e) == e.status = "503" \/ Includes(e.message, "503")

AuthHint == " - Please check your API key and ensure it is valid."

ServerHint ==
  " - Server error. The Targon API may be experiencing issues. Try again with a simpler prompt or fewer tokens."

Hint(msg) ==
  IF Includes(msg, "401") \/ Includes(msg, "authentication")
  THEN <<AuthHint>>
  ELSE IF Includes(msg, "403")
  THEN <<" - You may not have permission to access this resource.">>
  ELSE IF Includes(msg, "404")
  THEN <<" - The requested resource was not found. Check the model ID.">>
  ELSE IF Includes(msg, "429")
  THEN <<" - Rate limit exceeded. Please try again later.">>
  ELSE IF Includes(msg, "500") \/ Includes(msg, "502")
          \/ Includes(msg, "503")
  THEN <<ServerHint>>
  ELSE <<>>

\* ErrorMessage without the status code.
ErrorMessageNoStatus(e) ==
  <<"Targon API error:">> \o e.message \o Hint(e.message)

\* The message of the Error the catch block throws.
ErrorMessage(e) ==
  <<"Targon API error:">>
    \o (IF e.status # "" THEN <<e.status>> ELSE <<>>)
    \o e.message \o Hint(e.message)

KeyError == <<"Targon API key not found">>

\* ---------------------------------------------------- request construction
\* A prompt or a message text is the sequence of its words.  Lower-casing
\* and substring search work word by word.
\* LowerCase that leaves capitals as they are.
LowerCaseNone(w) == w

LowerCase(w) ==
  IF w = "Concise" THEN "concise"
  ELSE IF w = "BRIEF," THEN "brief,"
  ELSE w

\* WordIncludes that takes the whole word only.
WordIncludesExact(w, sub) == w = sub

\* The words of the texts in use that hold a given text as a substring.
WordIncludes(w, sub) ==
  \/ w = sub
  \/ <<w, sub>> \in { <<"concise.", "concise">>, <<"brief,", "brief">>,
                      <<"shortly", "short">> }

\* text.toLowerCase().includes(sub)
LowerIncludes(text, sub) ==
  \E i \in 1..Len(text) : WordIncludes(LowerCase(text[i]), sub)

\* The instruction block makePromptConcise appends.
ConciseSuffix ==
  << "\n\nIMPORTANT:", "Be", "extremely", "concise.",
     "Provide only direct answers with no explanations, thinking, or reasoning.",
     "No \"Let's tackle this\" or \"First, I need to\" statements.",
     "Just give the final result or action." >>

makePromptConcise(systemPrompt) ==
  IF \/ LowerIncludes(systemPrompt, "concise")
     \/ LowerIncludes(systemPrompt, "brief")
     \/ LowerIncludes(systemPrompt, "short")
  THEN systemPrompt
  ELSE systemPrompt \o ConciseSuffix

\* A message content: a string, or an array holding one text block.
StringContent(t) == [type |-> "string", text |-> t]

BlockContent(t) == [type |-> "blocks", text |-> t]

InputMessage(r, ct) == [role |-> r, content |-> ct]

\* JSON.stringify of a structured content.
StringifyContent(ct) ==
  <<"[{\"type\":\"text\",\"text\":\"">> \o ct.text \o <<"\"}]">>

\* FormatContent that passes the text of a structured content on.
FormatContentTextOnly(ct) == ct.text

\* typeof msg.content === "string" ? msg.content : JSON.stringify(msg.content)
FormatContent(ct) ==
  IF ct.type = "string" THEN ct.text ELSE StringifyContent(ct)

OutMessage(r, t) == [role |-> r, content |-> t]

RECURSIVE MapMessages(_)
MapMessages(msgs) ==
  IF msgs = <<>> THEN <<>>
  ELSE <<OutMessage(Head(msgs).role, FormatContent(Head(msgs).content))>>
         \o MapMessages(Tail(msgs))

\* openAiMessages: the system entry, then the input messages in order.
OpenAiMessages(systemPrompt, msgs) ==
  <<OutMessage("system", makePromptConcise(systemPrompt))>>
    \o MapMessages(msgs)

\* messages.some(m => typeof m.content === "string"
\*                     && m.content.includes("ask_followup_question"))
MentionsTool(msgs) ==
  \E i \in 1..Len(msgs) :
    /\ msgs[i].content.type = "string"
    /\ Includes(msgs[i].content.text, AskTool)

\* The model table of @shared/api: ids with their descriptors, one of them
\* without a maximum.
ModelInfo(n) == [kind |-> "ModelInfo", maxTokens |-> n]

targonModels ==
  [id \in {"deepseek-ai/DeepSeek-V3", "deepseek-ai/DeepSeek-R1"} |->
     IF id = "deepseek-ai/DeepSeek-V3" THEN ModelInfo(8192) ELSE ModelInfo(0)]

targonDefaultModelId == "deepseek-ai/DeepSeek-V3"

\* Property names every object inherits from Object.prototype, and what a
\* lookup of one gives: a function, which has no maxTokens.
InheritedKeys == {"toString", "constructor"}

InheritedValue == [kind |-> "function", maxTokens |-> 0]

\* modelId in targonModels
InTable(modelId) ==
  modelId \in DOMAIN targonModels \/ modelId \in InheritedKeys

\* targonModels[id]
TableLookup(id) ==
  IF id \in DOMAIN targonModels THEN targonModels[id] ELSE InheritedValue

getModel(modelId) ==
  IF modelId \notin {Undefined, ""} /\ InTable(modelId)
  THEN [id |-> modelId, info |-> TableLookup(modelId)]
  ELSE [id |-> targonDefaultModelId,
        info |-> TableLookup(targonDefaultModelId)]

\* model.info.maxTokens || 4096
MaxTokensOf(model) ==
  IF model.info.maxTokens # 0 THEN model.info.maxTokens ELSE 4096

\* ------------------------------------------------------------------ state
VARIABLES
  profile,       \* the family the provider's chunks and errors come from
  apiKey,        \* options.targonApiKey, fixed at construction
  apiModelId,    \* options.apiModelId, fixed at construction
  args,          \* per call: the arguments systemPrompt and messages
  pc,            \* per call: where the generator body stands
  demand,        \* per call: the consumer's next() is waiting for an answer
  out,           \* per call: the fragments yielded so far
  raised,        \* per call: the messages of the errors raised to the consumer
  responseText,  \* per call: the local responseText
  tokensIn,      \* per call: the local tokensIn
  tokensOut,     \* per call: the local tokensOut
  pend,          \* per call: the yields the chunk in hand still has to make
  mid,           \* per call: a primary chunk is in hand, its usage not yet read
  requests,      \* per call: the requests handed to client.chat.completions.create
  log,           \* per call: the chunks consumed from the primary stream
  rlog,          \* per call: the chunks consumed from the retry stream
  thrown         \* per call: the errors the client threw, attempt by attempt

\* What a run is given and never changes.
inputs == <<profile, apiKey, apiModelId, args>>

vars ==
  <<profile, apiKey, apiModelId, args, pc, demand, out, raised, responseText, tokensIn,
    tokensOut, pend, mid, requests, log, rlog, thrown>>

\* The generator is suspended or running, neither finished nor closed.
Running ==
  {"created", "creating", "primary", "retrying", "retry", "summarized"}

PrimaryRequest(c) ==
  [attempt |-> "primary", model |-> getModel(apiModelId).id,
   messages |-> OpenAiMessages(args[c].systemPrompt, args[c].messages),
   stream |-> TRUE, temperature |-> "0.7",
   max_tokens |-> MaxTokensOf(getModel(apiModelId)),
   tools |-> MentionsTool(args[c].messages)]

\* RetryRequest that repeats the primary request with the lower limits.
RetryRequestKeepsTools(c) ==
  [PrimaryRequest(c) EXCEPT !.attempt = "retry", !.temperature = "0",
                            !.max_tokens = 1024]

RetryRequest(c) ==
  [attempt |-> "retry", model |-> getModel(apiModelId).id,
   messages |-> OpenAiMessages(args[c].systemPrompt, args[c].messages),
   stream |-> TRUE, temperature |-> "0", max_tokens |-> 1024,
   tools |-> FALSE]

NoArgs == [systemPrompt |-> <<>>, messages |-> <<>>]

\* The handler with the calls in created on it, the provider's family,
\* the configured model id and the calls' arguments drawn from the sets
\* given.
InitOf(created, profiles, modelIds, prompts, messageLists) ==
  /\ profile \in profiles
  /\ apiKey \in ApiKeys
  /\ apiModelId \in modelIds
  /\ args \in [Calls -> [systemPrompt : prompts, messages : messageLists]
                        \cup {NoArgs}]
  /\ \A c \in Calls : args[c] = NoArgs <=> c \notin created
  /\ pc = [c \in Calls |-> IF c \in created THEN "created" ELSE "unused"]
  /\ demand = [c \in Calls |-> FALSE]
  /\ out = [c \in Calls |-> <<>>]
  /\ raised = [c \in Calls |-> <<>>]
  /\ responseText = [c \in Calls |-> ""]
  /\ tokensIn = [c \in Calls |-> 0]
  /\ tokensOut = [c \in Calls |-> 0]
  /\ pend = [c \in Calls |-> <<>>]
  /\ mid = [c \in Calls |-> FALSE]
  /\ requests = [c \in Calls |-> <<>>]
  /\ log = [c \in Calls |-> <<>>]
  /\ rlog = [c \in Calls |-> <<>>]
  /\ thrown = [c \in Calls |-> <<>>]

UserHi == InputMessage("user", StringContent(<<"Hi">>))

UserAsk ==
  InputMessage("user", StringContent(<<"use", "ask_followup_question">>))

InitWith(created) ==
  InitOf(created, Profiles, {"deepseek-ai/DeepSeek-V3"},
         {<<"Answer.">>}, {<<UserHi>>, <<UserAsk>>})

\* One createMessage call on the handler.
Init == InitWith({1})

\* ---------------------------------------------------------------- actions
\* The consumer asks for the next fragment.
Request(c) ==
  /\ pc[c] \in Running
  /\ ~demand[c]
  /\ demand' = [demand EXCEPT ![c] = TRUE]
  /\ UNCHANGED <<inputs, pc, out, raised, responseText, tokensIn,
                 tokensOut, pend, mid, requests, log, rlog, thrown>>

\* The consumer gives the iteration up while the generator is suspended.
Abandon(c) ==
  /\ pc[c] \in Running
  /\ ~demand[c]
  /\ pc' = [pc EXCEPT ![c] = "closed"]
  /\ pend' = [pend EXCEPT ![c] = <<>>]
  /\ mid' = [mid EXCEPT ![c] = FALSE]
  /\ UNCHANGED <<inputs, demand, out, raised, responseText,
                 tokensIn, tokensOut, requests, log, rlog, thrown>>

\* Throw that reports the error and leaves the generator running.
ThrowKeepsRunning(c, m) ==
  /\ pc' = pc
  /\ raised' = [raised EXCEPT ![c] = Append(@, m)]
  /\ demand' = [demand EXCEPT ![c] = FALSE]

\* throw new Error(m): the pending next() rejects and the generator is over.
Throw(c, m) ==
  /\ pc' = [pc EXCEPT ![c] = "failed"]
  /\ raised' = [raised EXCEPT ![c] = Append(@, m)]
  /\ demand' = [demand EXCEPT ![c] = FALSE]

\* The catch block for the error e of the primary attempt: submit the
\* simplified request on a 503, else throw the descriptive error.
Catch(c, e) ==
  /\ thrown' = [thrown EXCEPT ![c] = Append(@, e)]
  /\ IF Is503(e)
     THEN /\ requests' = [requests EXCEPT ![c] = Append(@, RetryRequest(c))]
          /\ pc' = [pc EXCEPT ![c] = "retrying"]
          /\ UNCHANGED <<raised, demand>>
     ELSE /\ Throw(c, ErrorMessage(e))
          /\ UNCHANGED requests

\* Start that lets an empty key through.
StartUndefinedOnly(c) ==
  /\ pc[c] = "created"
  /\ demand[c]
  /\ IF apiKey = Undefined
     THEN /\ Throw(c, KeyError)
          /\ UNCHANGED requests
     ELSE /\ requests' = [requests EXCEPT ![c] = Append(@, PrimaryRequest(c))]
          /\ pc' = [pc EXCEPT ![c] = "creating"]
          /\ UNCHANGED <<raised, demand>>
  /\ UNCHANGED <<inputs, out, responseText, tokensIn,
                 tokensOut, pend, mid, log, rlog, thrown>>

\* RetryCatch that reports the error of the primary attempt.
RetryCatchFirstError(c, e) ==
  /\ thrown' = [thrown EXCEPT ![c] = Append(@, e)]
  /\ Throw(c, ErrorMessage(thrown[c][1]))

\* RetryCatch that submits the simplified request once more.
RetryCatchAgain(c, e) ==
  /\ pc' = [pc EXCEPT ![c] = "retrying"]
  /\ UNCHANGED <<thrown, raised, demand>>

\* The inner catch block: the retry's error takes the place of the first
\* one and the descriptive error is thrown.
RetryCatch(c, e) ==
  /\ thrown' = [thrown EXCEPT ![c] = Append(@, e)]
  /\ Throw(c, ErrorMessage(e))

\* First next(): the key check, then the primary request is submitted.
Start(c) ==
  /\ pc[c] = "created"
  /\ demand[c]
  /\ IF apiKey \in {Undefined, ""}
     THEN /\ Throw(c, KeyError)
          /\ UNCHANGED requests
     ELSE /\ requests' = [requests EXCEPT ![c] = Append(@, PrimaryRequest(c))]
          /\ pc' = [pc EXCEPT ![c] = "creating"]
          /\ UNCHANGED <<raised, demand>>
  /\ UNCHANGED <<inputs, out, responseText, tokensIn, tokensOut,
                 pend, mid, log, rlog, thrown>>

\* await client.chat.completions.create(...) of the primary request settles.
CreateOk(c) ==
  /\ pc[c] = "creating"
  /\ pc' = [pc EXCEPT ![c] = "primary"]
  /\ UNCHANGED <<inputs, demand, out, raised, responseText,
                 tokensIn, tokensOut, pend, mid, requests, log, rlog,
                 thrown>>

CreateFails(c) ==
  /\ pc[c] = "creating"
  /\ \E e \in Errors(profile) : Catch(c, e)
  /\ UNCHANGED <<inputs, out, responseText, tokensIn, tokensOut,
                 pend, mid, log, rlog>>

\* The primary loop takes the next chunk and extracts its content.
PullPrimary(c) ==
  /\ pc[c] = "primary"
  /\ demand[c]
  /\ ~mid[c]
  /\ pend[c] = <<>>
  /\ Len(log[c]) + Len(rlog[c]) < MaxEvents
  /\ \E ch \in PrimaryEvents(profile) :
       /\ log' = [log EXCEPT ![c] = Append(@, ch)]
       /\ responseText' =
            [responseText EXCEPT ![c] = @ \o ExtractContent(ch)]
       /\ pend' = [pend EXCEPT ![c] = ChunkFragments(ch)]
  /\ mid' = [mid EXCEPT ![c] = TRUE]
  /\ UNCHANGED <<inputs, pc, demand, out, raised, tokensIn,
                 tokensOut, requests, rlog, thrown>>

\* Yield that goes on without waiting for the consumer to ask again.
YieldNoSuspend(c) ==
  /\ pc[c] \in {"primary", "retry"}
  /\ demand[c]
  /\ pend[c] # <<>>
  /\ out' = [out EXCEPT ![c] = Append(@, Head(pend[c]))]
  /\ pend' = [pend EXCEPT ![c] = Tail(@)]
  /\ UNCHANGED <<inputs, pc, demand, raised, responseText, tokensIn,
                 tokensOut, mid, requests, log, rlog, thrown>>

\* A yield statement of the chunk in hand hands its fragment over and
\* suspends the generator.
Yield(c) ==
  /\ pc[c] \in {"primary", "retry"}
  /\ demand[c]
  /\ pend[c] # <<>>
  /\ out' = [out EXCEPT ![c] = Append(@, Head(pend[c]))]
  /\ pend' = [pend EXCEPT ![c] = Tail(@)]
  /\ demand' = [demand EXCEPT ![c] = FALSE]
  /\ UNCHANGED <<inputs, pc, raised, responseText, tokensIn,
                 tokensOut, mid, requests, log, rlog, thrown>>

\* FinishChunk that keeps the token counts on the handler, one pair for
\* all calls.
FinishChunkOnHandler(c) ==
  /\ pc[c] = "primary"
  /\ demand[c]
  /\ mid[c]
  /\ pend[c] = <<>>
  /\ LET u == log[c][Len(log[c])].usage IN
       /\ tokensIn' =
            [d \in Calls |-> IF u.present THEN u.prompt_tokens
                             ELSE tokensIn[d]]
       /\ tokensOut' =
            [d \in Calls |-> IF u.present THEN u.completion_tokens
                             ELSE tokensOut[d]]
  /\ mid' = [mid EXCEPT ![c] = FALSE]
  /\ UNCHANGED <<inputs, pc, demand, out, raised, responseText,
                 pend, requests, log, rlog, thrown>>

\* FinishChunk that adds the usage of the chunk to the token counts.
FinishChunkSum(c) ==
  /\ pc[c] = "primary"
  /\ demand[c]
  /\ mid[c]
  /\ pend[c] = <<>>
  /\ LET u == log[c][Len(log[c])].usage IN
       /\ tokensIn' = [tokensIn EXCEPT ![c] = @ + u.prompt_tokens]
       /\ tokensOut' = [tokensOut EXCEPT ![c] = @ + u.completion_tokens]
  /\ mid' = [mid EXCEPT ![c] = FALSE]
  /\ UNCHANGED <<inputs, pc, demand, out, raised,
                 responseText, pend, requests, log, rlog, thrown>>

\* The end of the primary loop body: chunk.usage, when present, replaces
\* the token counts.
FinishChunk(c) ==
  /\ pc[c] = "primary"
  /\ demand[c]
  /\ mid[c]
  /\ pend[c] = <<>>
  /\ LET u == log[c][Len(log[c])].usage IN
       /\ tokensIn' =
            [tokensIn EXCEPT ![c] = IF u.present THEN u.prompt_tokens ELSE @]
       /\ tokensOut' =
            [tokensOut EXCEPT
               ![c] = IF u.present THEN u.completion_tokens ELSE @]
  /\ mid' = [mid EXCEPT ![c] = FALSE]
  /\ UNCHANGED <<inputs, pc, demand, out, raised, responseText,
                 pend, requests, log, rlog, thrown>>

\* The yield of the summary, after either loop.
YieldSummary(c) ==
  /\ out' = [out EXCEPT
               ![c] = Append(@, SummaryFragment(c, responseText[c],
                                                tokensIn[c], tokensOut[c]))]
  /\ pc' = [pc EXCEPT ![c] = "summarized"]
  /\ demand' = [demand EXCEPT ![c] = FALSE]

\* The primary stream ends.
PrimaryEnd(c) ==
  /\ pc[c] = "primary"
  /\ demand[c]
  /\ ~mid[c]
  /\ pend[c] = <<>>
  /\ YieldSummary(c)
  /\ UNCHANGED <<inputs, raised, responseText, tokensIn, tokensOut,
                 pend, mid, requests, log, rlog, thrown>>

\* The primary stream fails while the loop waits for a chunk.
PrimaryFails(c) ==
  /\ pc[c] = "primary"
  /\ demand[c]
  /\ ~mid[c]
  /\ pend[c] = <<>>
  /\ \E e \in Errors(profile) : Catch(c, e)
  /\ UNCHANGED <<inputs, out, responseText, tokensIn, tokensOut,
                 pend, mid, log, rlog>>

\* RetryCreateOk that starts the retry with an empty buffer.
RetryCreateOkResets(c) ==
  /\ pc[c] = "retrying"
  /\ pc' = [pc EXCEPT ![c] = "retry"]
  /\ responseText' = [responseText EXCEPT ![c] = ""]
  /\ UNCHANGED <<inputs, demand, out, raised, tokensIn, tokensOut, pend,
                 mid, requests, log, rlog, thrown>>

\* await client.chat.completions.create(...) of the retry request settles.
RetryCreateOk(c) ==
  /\ pc[c] = "retrying"
  /\ pc' = [pc EXCEPT ![c] = "retry"]
  /\ UNCHANGED <<inputs, demand, out, raised, responseText,
                 tokensIn, tokensOut, pend, mid, requests, log, rlog,
                 thrown>>

RetryCreateFails(c) ==
  /\ pc[c] = "retrying"
  /\ \E e \in Errors(profile) : RetryCatch(c, e)
  /\ UNCHANGED <<inputs, out, responseText, tokensIn,
                 tokensOut, pend, mid, requests, log, rlog>>

\* PullRetry that reads the usage of the chunk as the primary loop does.
PullRetryReadsUsage(c) ==
  /\ pc[c] = "retry"
  /\ demand[c]
  /\ pend[c] = <<>>
  /\ Len(log[c]) + Len(rlog[c]) < MaxEvents
  /\ \E ch \in RetryEvents(profile) :
       /\ rlog' = [rlog EXCEPT ![c] = Append(@, ch)]
       /\ responseText' = [responseText EXCEPT ![c] = @ \o RetryContent(ch)]
       /\ pend' = [pend EXCEPT ![c] = RetryChunkFragments(ch)]
       /\ tokensIn' =
            [tokensIn EXCEPT
               ![c] = IF ch.usage.present THEN ch.usage.prompt_tokens ELSE @]
       /\ tokensOut' =
            [tokensOut EXCEPT
               ![c] = IF ch.usage.present THEN ch.usage.completion_tokens
                      ELSE @]
  /\ UNCHANGED <<inputs, pc, demand, out, raised, mid, requests, log,
                 thrown>>

\* The retry loop takes the next chunk: content extraction only.
PullRetry(c) ==
  /\ pc[c] = "retry"
  /\ demand[c]
  /\ pend[c] = <<>>
  /\ Len(log[c]) + Len(rlog[c]) < MaxEvents
  /\ \E ch \in RetryEvents(profile) :
       /\ rlog' = [rlog EXCEPT ![c] = Append(@, ch)]
       /\ responseText' = [responseText EXCEPT ![c] = @ \o RetryContent(ch)]
       /\ pend' = [pend EXCEPT ![c] = RetryChunkFragments(ch)]
  /\ UNCHANGED <<inputs, pc, demand, out, raised, tokensIn,
                 tokensOut, mid, requests, log, thrown>>

\* RetryEnd that returns without the summary.
RetryEndNoSummary(c) ==
  /\ pc[c] = "retry"
  /\ demand[c]
  /\ pend[c] = <<>>
  /\ pc' = [pc EXCEPT ![c] = "done"]
  /\ demand' = [demand EXCEPT ![c] = FALSE]
  /\ UNCHANGED <<inputs, out, raised, responseText,
                 tokensIn, tokensOut, pend, mid, requests, log, rlog,
                 thrown>>

\* The retry stream ends.
RetryEnd(c) ==
  /\ pc[c] = "retry"
  /\ demand[c]
  /\ pend[c] = <<>>
  /\ YieldSummary(c)
  /\ UNCHANGED <<inputs, raised, responseText, tokensIn, tokensOut,
                 pend, mid, requests, log, rlog, thrown>>

\* The retry stream fails: the retry's error replaces the first one.
RetryFails(c) ==
  /\ pc[c] = "retry"
  /\ demand[c]
  /\ pend[c] = <<>>
  /\ \E e \in Errors(profile) : RetryCatch(c, e)
  /\ UNCHANGED <<inputs, out, responseText, tokensIn,
                 tokensOut, pend, mid, requests, log, rlog>>

\* Resumed after the summary, the generator returns.
Return(c) ==
  /\ pc[c] = "summarized"
  /\ demand[c]
  /\ pc' = [pc EXCEPT ![c] = "done"]
  /\ demand' = [demand EXCEPT ![c] = FALSE]
  /\ UNCHANGED <<inputs, out, raised, responseText, tokensIn,
                 tokensOut, pend, mid, requests, log, rlog, thrown>>

Next ==
  \E c \in Calls :
    \/ Request(c)
    \/ Abandon(c)
    \/ Start(c)
    \/ CreateOk(c)
    \/ CreateFails(c)
    \/ PullPrimary(c)
    \/ Yield(c)
    \/ FinishChunk(c)
    \/ PrimaryEnd(c)
    \/ PrimaryFails(c)
    \/ RetryCreateOk(c)
    \/ RetryCreateFails(c)
    \/ PullRetry(c)
    \/ RetryEnd(c)
    \/ RetryFails(c)
    \/ Return(c)

Spec == Init /\ [][Next]_vars

\* One call whose configuration and arguments vary, against a provider that
\* sends a content chunk, a usage chunk, a 503 or a 401.
ModelIdChoices ==
  {Undefined, "", "deepseek-ai/DeepSeek-V3", "deepseek-ai/DeepSeek-R1",
   "no-such-model", "toString"}

PromptChoices ==
  { <<"Answer", "questions.">>, <<"Be", "concise.">>, <<"Be", "Concise">>,
    <<"Keep", "it", "BRIEF,", "please">>, <<"Reply", "shortly">>, <<>> }

AssistantBlocks ==
  InputMessage("assistant", BlockContent(<<"ask_followup_question">>))

MessageListChoices ==
  { <<>>, <<UserHi>>, <<UserAsk>>, <<UserHi, AssistantBlocks>>,
    <<AssistantBlocks, UserHi, UserAsk>> }

InitRequest ==
  InitOf({1}, {"plain"}, ModelIdChoices, PromptChoices, MessageListChoices)

SpecRequest == InitRequest /\ [][Next]_vars

\* Two calls on one handler whose steps interleave, each with its own
\* provider stream.
InitTwoCalls ==
  InitOf({1, 2}, {"plain"}, {"deepseek-ai/DeepSeek-V3"}, {<<"Answer.">>},
         {<<UserHi>>})

SpecTwoCalls == InitTwoCalls /\ [][Next]_vars

\* The steps of the generator body of the call c: the statements between
\* two suspensions and the settling of the awaits on the client.
Serve(c) ==
  \/ Start(c)
  \/ CreateOk(c)
  \/ CreateFails(c)
  \/ PullPrimary(c)
  \/ Yield(c)
  \/ FinishChunk(c)
  \/ PrimaryEnd(c)
  \/ PrimaryFails(c)
  \/ RetryCreateOk(c)
  \/ RetryCreateFails(c)
  \/ PullRetry(c)
  \/ RetryEnd(c)
  \/ RetryFails(c)
  \/ Return(c)

InitLive ==
  InitOf({1}, {"plain"}, {"deepseek-ai/DeepSeek-V3"}, {<<"Answer.">>},
         {<<UserHi>>, <<UserAsk>>})

\* One call whose consumer asks again whenever it holds a fragment and has
\* not given up, whose awaits on the client settle, and whose streams
\* deliver at most MaxEvents chunks before they end or fail.
SpecLive ==
  /\ InitLive
  /\ [][Next]_vars
  /\ \A c \in Calls : WF_vars(Request(c)) /\ WF_vars(Serve(c))

\* ----------------------------------------------------------- observations
IsContent(f) == f.kind = "content"

IsTool(f) == f.kind = "tool"

IsSummary(f) == f.kind = "summary"

RECURSIVE Texts(_)
Texts(fs) == IF fs = <<>> THEN <<>> ELSE <<Head(fs).text>> \o Texts(Tail(fs))

ContentTexts(fs) == Texts(SelectSeq(fs, IsContent))

ToolTexts(fs) == Texts(SelectSeq(fs, IsTool))

Summaries(fs) == SelectSeq(fs, IsSummary)

Front(q) == SubSeq(q, 1, Len(q) - 1)

Last(q) == q[Len(q)]

\* The call returned normally.
Completed(c) == pc[c] = "done"

\* ----------------------------------------------------------------- claims
\* C1: in every call that completes without raising, on the primary stream
\* or on the retry stream, exactly one summary fragment was yielded and it
\* is the last fragment; nothing is ever yielded after a summary.
C1_OneSummaryLast ==
  \A c \in Calls :
    /\ \A i \in 1..Len(out[c]) : IsSummary(out[c][i]) => i = Len(out[c])
    /\ Completed(c) =>
         /\ Len(Summaries(out[c])) = 1
         /\ IsSummary(Last(out[c]))

\* A call that completed on the retry stream after content of both streams.
C1_Witness ==
  \E c \in Calls :
    /\ Completed(c)
    /\ Len(requests[c]) = 2
    /\ log[c] # <<>>
    /\ Len(ContentTexts(out[c])) >= 2

\* The error e is of the class the retry is for: status 503, or "503" in
\* the message.
Class503(e) == e.status = "503" \/ \E i \in 1..Len(e.message) : e.message[i] = "503"

\* C2: one call invokes the chat-completion client at most twice; a second
\* invocation is there only if the first attempt failed with status 503 or
\* with "503" in its message; after any other failure of the first attempt
\* there is one invocation only, and a failed retry is followed by no third.
C2_AtMostOneRetry ==
  \A c \in Calls :
    /\ Len(requests[c]) <= 2
    /\ Len(requests[c]) = 2 =>
         /\ requests[c][1].attempt = "primary"
         /\ requests[c][2].attempt = "retry"
         /\ thrown[c] # <<>>
         /\ Class503(thrown[c][1])
    /\ (thrown[c] # <<>> /\ ~Class503(thrown[c][1])) =>
         Len(requests[c]) = 1
    /\ Len(thrown[c]) = 2 => (pc[c] = "failed" /\ Len(requests[c]) = 2)

\* The retry failed too and the call raised after two invocations.
C2_Witness ==
  \E c \in Calls :
    /\ pc[c] = "failed"
    /\ Len(requests[c]) = 2
    /\ rlog[c] # <<>>

RECURSIVE Deltas(_)
\* The non-empty choices[0].delta.content texts of a chunk sequence.
Deltas(chs) ==
  IF chs = <<>> THEN <<>>
  ELSE (IF Head(chs).choices = "object" /\ Head(chs).delta # ""
        THEN <<Head(chs).delta>> ELSE <<>>) \o Deltas(Tail(chs))

\* C3: when the first call fails with status 503 before any event and the
\* retry stream delivers the content chunks c1..cn and ends, the call yields
\* the text fragments c1..cn in order, then one summary, and raises nothing.
C3_RetryRecovers ==
  \A c \in Calls :
    ( /\ Completed(c)
      /\ thrown[c] # <<>>
      /\ thrown[c][1].status = "503"
      /\ log[c] = <<>> ) =>
        /\ raised[c] = <<>>
        /\ Len(out[c]) = Len(Deltas(rlog[c])) + 1
        /\ Texts(Front(out[c])) = Deltas(rlog[c])
        /\ \A i \in 1..(Len(out[c]) - 1) : IsContent(out[c][i])
        /\ IsSummary(Last(out[c]))

\* A 503 before any event, then a retry stream of two content chunks.
C3_Witness ==
  \E c \in Calls :
    /\ Completed(c)
    /\ thrown[c] # <<>>
    /\ thrown[c][1].status = "503"
    /\ log[c] = <<>>
    /\ Texts(out[c]) = <<"ok", "lo", "">>

\* The first attempt of c failed with status 401 before any event.
Failed401AtOnce(c) ==
  /\ thrown[c] # <<>>
  /\ thrown[c][1].status = "401"
  /\ log[c] = <<>>

HasToken(msg, tok) == \E i \in 1..Len(msg) : msg[i] = tok

\* C4 as stated: every failure with status 401 before any event raises an
\* error whose message contains "401" and the authentication hint, whatever
\* the provider's message text, and no fragment is yielded.
C4_Original ==
  \A c \in Calls :
    Failed401AtOnce(c) =>
      /\ pc[c] = "failed"
      /\ Len(raised[c]) = 1
      /\ HasToken(raised[c][1], "401")
      /\ HasToken(raised[c][1], AuthHint)
      /\ out[c] = <<>>

\* C4 amended: a failure with status 401 before any event, with a message
\* text that does not contain "503", raises one error whose message contains
\* "401", and no fragment is yielded; the authentication hint is in it
\* exactly when the provider's message contains "401" or "authentication".
C4_Hint401ByMessage ==
  \A c \in Calls :
    (Failed401AtOnce(c) /\ ~HasToken(thrown[c][1].message, "503")) =>
      /\ pc[c] = "failed"
      /\ Len(raised[c]) = 1
      /\ HasToken(raised[c][1], "401")
      /\ out[c] = <<>>
      /\ HasToken(raised[c][1], AuthHint) <=>
           \/ HasToken(thrown[c][1].message, "401")
           \/ HasToken(thrown[c][1].message, "authentication")

\* A 401 whose message names neither "401" nor "authentication" was raised
\* without the hint.
C4_Witness ==
  \E c \in Calls :
    /\ Failed401AtOnce(c)
    /\ thrown[c][1].message = <<"Unauthorized">>
    /\ raised[c] = <<(<<"Targon API error:", "401", "Unauthorized">>)>>

\* C5: without an API key (absent or empty) the call fails with the
\* configuration error on first consumption, the client is never invoked
\* and no fragment is yielded.
C5_NoKeyNoRequest ==
  apiKey \in {Undefined, ""} =>
    \A c \in Calls :
      /\ requests[c] = <<>>
      /\ out[c] = <<>>
      /\ pc[c] \in {"unused", "created", "failed", "closed"}
      /\ pc[c] = "failed" => raised[c] = <<KeyError>>
      /\ (pc[c] = "created" /\ demand[c]) =>
           ENABLED (Start(c) /\ pc'[c] = "failed")

\* The call failed on its first consumption with an empty key.
C5_Witness ==
  \E c \in Calls :
    /\ apiKey = ""
    /\ pc[c] = "failed"
    /\ raised[c] = <<KeyError>>

RECURSIVE FirstNonEmpty(_)
FirstNonEmpty(ts) ==
  IF ts = <<>> THEN ""
  ELSE IF Head(ts) # "" THEN Head(ts)
  ELSE FirstNonEmpty(Tail(ts))

\* The text delta of a provider event: the first non-empty text among the
\* places an event may carry it.
TextDelta(ch) ==
  FirstNonEmpty(
    IF ch.choices = "object" THEN <<ch.delta, ch.message>>
    ELSE IF ch.choices = "string" THEN <<ch.c0>>
    ELSE <<ch.top, IF ch.kind = "string" THEN ch.str ELSE "">>)

RECURSIVE TextDeltas(_)
\* The non-empty text deltas of an event sequence, in order.
TextDeltas(chs) ==
  IF chs = <<>> THEN <<>>
  ELSE (IF TextDelta(Head(chs)) # "" THEN <<TextDelta(Head(chs))>>
        ELSE <<>>) \o TextDeltas(Tail(chs))

\* C6: on the primary stream the content fragments are, in order, the
\* non-empty text deltas of the events consumed, one fragment per such
\* event and none for an event without text; the fragment of an event is
\* yielded before the next event is consumed (at most the delta of the
\* event in hand is still to be yielded).
C6_DeltasInOrder ==
  \A c \in Calls :
    rlog[c] = <<>> =>
      LET D == TextDeltas(log[c])
          F == ContentTexts(out[c])
      IN  \/ F = D
          \/ /\ mid[c]
             /\ demand[c]
             /\ pend[c] # <<>>
             /\ Head(pend[c]) = ContentFragment(TextDelta(Last(log[c])))
             /\ D = Append(F, TextDelta(Last(log[c])))

\* The stream "Hel", "lo", usage chunk yielded "Hel", "lo", then the summary.
C6_Witness ==
  \E c \in Calls :
    /\ Completed(c)
    /\ Len(log[c]) = 3
    /\ log[c][1].delta = "Hel"
    /\ log[c][2].delta = "lo"
    /\ log[c][3].usage = Usage(5, 2)
    /\ Texts(Front(out[c])) = <<"Hel", "lo">>
    /\ IsSummary(Last(out[c]))

RECURSIVE LastUsage(_)
\* The usage of the last usage-carrying chunk, NoUsage when there is none.
LastUsage(chs) ==
  IF chs = <<>> THEN NoUsage
  ELSE IF Last(chs).usage.present THEN Last(chs).usage
  ELSE LastUsage(Front(chs))

\* C7: the summary at the end of the primary stream reports the prompt and
\* completion counts of the last usage-carrying event (0 and 0 when no event
\* carried usage), and tokensTotal is their sum.
C7_LastUsageWins ==
  \A c \in Calls :
    (Len(requests[c]) = 1 /\ Summaries(out[c]) # <<>>) =>
      LET j == Last(out[c]).json
          u == LastUsage(log[c])
      IN  /\ j.tokensIn = u.prompt_tokens
          /\ j.tokensOut = u.completion_tokens
          /\ j.tokensTotal = j.tokensIn + j.tokensOut

\* Two usage-carrying events, then the summary with the counts of the second.
C7_Witness ==
  \E c \in Calls :
    /\ Len(requests[c]) = 1
    /\ Summaries(out[c]) # <<>>
    /\ Len(log[c]) >= 2
    /\ log[c][1].usage = Usage(5, 2)
    /\ log[c][2].usage = Usage(3, 0)
    /\ Last(out[c]).json.tokensTotal = 3

\* The client's errors so far leave the call unrecovered: the primary
\* attempt failed with an error outside the 503 class, or the retry failed.
Unrecovered(th) == (th # <<>> /\ ~Class503(th[1])) \/ Len(th) = 2

\* C8: an unrecovered failure ends the call by raising exactly one error:
\* the step of the failure raises it and yields nothing, a failed call
\* holds no summary fragment, and once the error is raised no fragment is
\* yielded and nothing already yielded changes.
C8_FailureEndsSequence ==
  [][\A c \in Calls :
       /\ Unrecovered(thrown'[c]) =>
            /\ pc'[c] = "failed"
            /\ Len(raised'[c]) = 1
       /\ raised'[c] # <<>> =>
            /\ pc'[c] = "failed"
            /\ out'[c] = out[c]
            /\ Summaries(out'[c]) = <<>>
            /\ \A i \in 1..Len(out'[c]) : out'[c][i].kind \in {"content", "tool"}
       /\ raised[c] # <<>> => raised'[c] = raised[c]]_vars

\* The primary stream failed after two content fragments were delivered.
C8_Witness ==
  \E c \in Calls :
    /\ pc[c] = "failed"
    /\ Len(raised[c]) = 1
    /\ Len(requests[c]) = 1
    /\ Texts(out[c]) = <<"Hel", "lo">>

BlockPickOne ==
  "<ask_followup_question>\n<question>Pick one</question>\n</ask_followup_question>"

BlockPickOneOptions ==
  "<ask_followup_question>\n<question>Pick one</question>\n<options>\n[\"a\",\"b\"]\n</options>\n</ask_followup_question>"

BlockWhy ==
  "<ask_followup_question>\n<question>Why?</question>\n</ask_followup_question>"

\* The block a tool-call delta is to yield: {"question":"Pick one"},
\* {"question":"Pick one","options":["a","b"]} and
\* {"question":"Why?","options":[]} for ask_followup_question; nothing for
\* another tool name or for arguments without a parsed non-empty question.
ExpectedBlocks(tc) ==
  IF tc.name # AskTool THEN <<>>
  ELSE IF tc.arguments = <<"{", "Q1", "}">> THEN <<BlockPickOne>>
  ELSE IF tc.arguments = <<"{", "Q1", "O", "}">> THEN <<BlockPickOneOptions>>
  ELSE IF tc.arguments = <<"{", "Q2", "OE", "}">> THEN <<BlockWhy>>
  ELSE <<>>

RECURSIVE ExpectedOfCalls(_)
ExpectedOfCalls(tcs) ==
  IF tcs = <<>> THEN <<>>
  ELSE ExpectedBlocks(Head(tcs)) \o ExpectedOfCalls(Tail(tcs))

RECURSIVE ExpectedOfLog(_)
ExpectedOfLog(chs) ==
  IF chs = <<>> THEN <<>>
  ELSE ExpectedOfCalls(Head(chs).tools) \o ExpectedOfLog(Tail(chs))

\* C9: on the primary stream a tool-call delta for ask_followup_question
\* whose arguments parse to a non-empty question q yields the text
\* "<ask_followup_question>\n<question>" q "</question>\n</ask_followup_question>",
\* with "\n<options>\n" JSON(options) "\n</options>" after </question> when
\* options is non-empty; a delta with another tool name yields nothing.  The
\* blocks yielded or still to be yielded are those of the deltas consumed.
C9_ToolCallBlock ==
  \A c \in Calls :
    pc[c] # "closed" =>
      ToolTexts(out[c]) \o ToolTexts(pend[c]) = ExpectedOfLog(log[c])

\* A block with options, one without, and a delta of another tool between.
C9_Witness ==
  \E c \in Calls :
    /\ Len(log[c]) = 3
    /\ log[c][2].tools = <<ToolDelta("other_tool", ArgsQ1)>>
    /\ ToolTexts(out[c]) = <<BlockPickOneOptions, BlockPickOne>>

RECURSIVE AskArguments(_)
\* The arguments fragments of the ask_followup_question deltas of a chunk
\* sequence, joined in arrival order.
AskArguments(chs) ==
  IF chs = <<>> THEN <<>>
  ELSE LET tcs == Head(chs).tools IN
       (IF tcs # <<>> /\ tcs[1].name = AskTool THEN tcs[1].arguments
        ELSE <<>>) \o AskArguments(Tail(chs))

\* The chunks carry {"question":"Pick one"} in two or more pieces, none of
\* them the whole text.
SplitPickOne(chs) ==
  /\ AskArguments(chs) = <<"{", "Q1", "}">>
  /\ \A i \in 1..Len(chs) :
       /\ Len(chs[i].tools) <= 1
       /\ chs[i].tools # <<>> => Len(chs[i].tools[1].arguments) < 3

\* C10: arguments of an ask_followup_question call that arrive split across
\* several events are accumulated, and once the accumulated text is a
\* complete object with a non-empty question the block is yielded exactly
\* once for that tool call.
C10_SplitArgumentsYieldOnce ==
  \A c \in Calls :
    ( /\ pc[c] \in {"summarized", "done"}
      /\ Len(requests[c]) = 1
      /\ SplitPickOne(log[c]) ) =>
        ToolTexts(out[c]) = <<BlockPickOne>>

\* A tool-call delta for ask_followup_question whose arguments are a piece
\* of a JSON text, or empty, or an object with an empty question.
Malformed(tc) ==
  /\ tc.name = AskTool
  /\ tc.arguments \in {<<"{", "Q1">>, <<"}">>, <<>>, <<"{", "QE", "}">>}

HasMalformed(chs) ==
  \E i \in 1..Len(chs) :
    \E k \in 1..Len(chs[i].tools) : Malformed(chs[i].tools[k])

\* C11: a tool-call delta with malformed or incomplete arguments, or without
\* a non-empty question, raises nothing and does not end the stream: it
\* yields no fragment, the other tool calls of its event yield theirs, the
\* usage of its event is captured, later events can still be consumed and
\* the summary can still be emitted.
C11_MalformedSkipped ==
  \A c \in Calls :
    (HasMalformed(log[c]) /\ Len(requests[c]) = 1) =>
      /\ raised[c] # <<>> => thrown[c] # <<>>
      /\ thrown[c] = <<>> =>
           pc[c] \in {"primary", "summarized", "done", "closed"}
      /\ pc[c] # "closed" =>
           ToolTexts(out[c]) \o ToolTexts(pend[c]) = ExpectedOfLog(log[c])
      /\ (pc[c] = "primary" /\ ~mid[c]) =>
           /\ tokensIn[c] = LastUsage(log[c]).prompt_tokens
           /\ tokensOut[c] = LastUsage(log[c]).completion_tokens
      /\ (pc[c] = "primary" /\ ~mid[c] /\ pend[c] = <<>> /\ demand[c]) =>
           /\ ENABLED PrimaryEnd(c)
           /\ Len(log[c]) < MaxEvents => ENABLED PullPrimary(c)
      /\ pc[c] \in {"summarized", "done"} => IsSummary(Last(out[c]))

\* An incomplete delta, then an event whose first tool call has an empty
\* question, whose second yields its block and whose usage is in the summary.
C11_Witness ==
  \E c \in Calls :
    /\ Completed(c)
    /\ Len(log[c]) = 2
    /\ log[c][1].tools = <<ToolDelta(AskTool, ArgsHead)>>
    /\ log[c][2].usage = Usage(1, 1)
    /\ ToolTexts(out[c]) = <<BlockWhy>>
    /\ Last(out[c]).json.tokensTotal = 2

\* The descriptor of the table entry id, the default entry's when id is no
\* entry of the table.
EntryOrDefault(id) ==
  IF id \in DOMAIN targonModels THEN [id |-> id, info |-> targonModels[id]]
  ELSE [id |-> targonDefaultModelId,
        info |-> targonModels[targonDefaultModelId]]

\* C12: getModel() returns the configured id with its entry when the id is
\* an entry of the model table, and the default id with the default entry
\* for every id that is absent, empty or no entry of the table; the request
\* carries that id.
C12_TableEntryOrDefault ==
  /\ getModel(apiModelId) = EntryOrDefault(apiModelId)
  /\ \A c \in Calls :
       requests[c] # <<>> =>
         requests[c][1].model = EntryOrDefault(apiModelId).id

\* The prompts in use that hold "concise", "brief" or "short" in some case.
TriggerPrompts ==
  { <<"Be", "concise.">>, <<"Be", "Concise">>,
    <<"Keep", "it", "BRIEF,", "please">>, <<"Reply", "shortly">> }

\* The system entry of the primary request of call c.
SystemContent(c) == requests[c][1].messages[1].content

\* C13: makePromptConcise(p) is p when p contains "concise", "brief" or
\* "short" in any letter case, and p followed by the fixed instruction
\* suffix otherwise; p is a prefix of the result in both cases.
C13_ConciseOnce ==
  \A c \in Calls :
    requests[c] # <<>> =>
      LET p == args[c].systemPrompt IN
        /\ p \in TriggerPrompts => SystemContent(c) = p
        /\ p \notin TriggerPrompts => SystemContent(c) = p \o ConciseSuffix
        /\ SubSeq(SystemContent(c), 1, Len(p)) = p

\* A prompt with the trigger in capitals went out unchanged.
C13_Witness ==
  \E c \in Calls :
    /\ requests[c] # <<>>
    /\ args[c].systemPrompt = <<"Keep", "it", "BRIEF,", "please">>
    /\ SystemContent(c) = <<"Keep", "it", "BRIEF,", "please">>

\* C14: the primary request holds n+1 messages for n input messages: the
\* system entry with makePromptConcise(systemPrompt), then every input
\* message in order with its role and its content, a plain text unchanged
\* and a structured content serialised; stream is true, temperature 0.7 and
\* max_tokens the resolved model's maximum, 4096 when it has none.
C14_PrimaryRequestShape ==
  \A c \in Calls :
    requests[c] # <<>> =>
      LET r == requests[c][1]
          in == args[c].messages
      IN  /\ r.attempt = "primary"
          /\ Len(r.messages) = Len(in) + 1
          /\ r.messages[1].role = "system"
          /\ r.messages[1].content = makePromptConcise(args[c].systemPrompt)
          /\ \A i \in 1..Len(in) :
               /\ r.messages[i + 1].role = in[i].role
               /\ in[i].content.type = "string" =>
                    r.messages[i + 1].content = in[i].content.text
               /\ in[i].content.type # "string" =>
                    r.messages[i + 1].content =
                      <<"[{\"type\":\"text\",\"text\":\"">>
                        \o in[i].content.text \o <<"\"}]">>
          /\ r.stream = TRUE
          /\ r.temperature = "0.7"
          /\ r.max_tokens =
               IF getModel(apiModelId).info.maxTokens = 0 THEN 4096
               ELSE getModel(apiModelId).info.maxTokens

\* Three input messages, the first structured, for a model without a
\* maximum.
C14_Witness ==
  \E c \in Calls :
    /\ requests[c] # <<>>
    /\ args[c].messages = <<AssistantBlocks, UserHi, UserAsk>>
    /\ Len(requests[c][1].messages) = 4
    /\ apiModelId = "deepseek-ai/DeepSeek-R1"
    /\ requests[c][1].max_tokens = 4096

\* C15: the retry request carries the model id and the message list of the
\* primary request of its call, no tool definitions even when the primary
\* request had them, temperature 0 and max_tokens 1024 whatever the model's
\* maximum.
C15_RetryRequestShape ==
  \A c \in Calls :
    Len(requests[c]) >= 2 =>
      LET r1 == requests[c][1]
          r2 == requests[c][2]
      IN  /\ r2.attempt = "retry"
          /\ r2.model = r1.model
          /\ r2.messages = r1.messages
          /\ r2.tools = FALSE
          /\ r2.temperature = "0"
          /\ r2.max_tokens = 1024
          /\ r2.stream = TRUE

\* A retry after a primary request with tool definitions and 8192 tokens.
C15_Witness ==
  \E c \in Calls :
    /\ Len(requests[c]) = 2
    /\ requests[c][1].tools = TRUE
    /\ requests[c][1].max_tokens = 8192
    /\ requests[c][2].tools = FALSE

RECURSIVE Join(_)
\* The texts of a sequence, concatenated.
Join(ts) == IF ts = <<>> THEN "" ELSE Head(ts) \o Join(Tail(ts))

RECURSIVE PrimaryFragmentsOf(_)
\* The fragments the primary loop makes of a chunk sequence.
PrimaryFragmentsOf(chs) ==
  IF chs = <<>> THEN <<>>
  ELSE ChunkFragments(Head(chs)) \o PrimaryFragmentsOf(Tail(chs))

RECURSIVE RetryFragmentsOf(_)
\* The fragments the retry loop makes of a chunk sequence.
RetryFragmentsOf(chs) ==
  IF chs = <<>> THEN <<>>
  ELSE RetryChunkFragments(Head(chs)) \o RetryFragmentsOf(Tail(chs))

IsFragmentOfChunk(f) == f.kind \in {"content", "tool"}

\* s is an initial part of t.
IsPrefix(s, t) == Len(s) <= Len(t) /\ SubSeq(t, 1, Len(s)) = s

\* Everything the model keeps for the call c.
CallState(c) ==
  <<pc[c], demand[c], out[c], raised[c], responseText[c], tokensIn[c],
    tokensOut[c], pend[c], mid[c], requests[c], log[c], rlog[c], thrown[c]>>

\* What the call c shows is what a call alone shows for the key, the
\* arguments, the chunks and the errors that c itself was given.
AsAlone(c) ==
  LET read == IF mid[c] THEN Front(log[c]) ELSE log[c]
      made == PrimaryFragmentsOf(log[c]) \o RetryFragmentsOf(rlog[c])
      kept == SelectSeq(out[c], IsFragmentOfChunk)
  IN  /\ responseText[c] =
           Join(TextDeltas(log[c])) \o Join(Deltas(rlog[c]))
      /\ tokensIn[c] = LastUsage(read).prompt_tokens
      /\ tokensOut[c] = LastUsage(read).completion_tokens
      /\ IF pc[c] = "closed" THEN IsPrefix(kept, made)
         ELSE kept \o pend[c] = made
      /\ Summaries(out[c]) # <<>> =>
           /\ out[c] = Append(kept, Last(out[c]))
           /\ Last(out[c]).json.content = responseText[c]
           /\ Last(out[c]).json.tokensIn = tokensIn[c]
           /\ Last(out[c]).json.tokensOut = tokensOut[c]
      /\ raised[c] =
           IF pc[c] = "failed" /\ requests[c] = <<>> THEN <<KeyError>>
           ELSE IF Unrecovered(thrown[c])
                THEN <<ErrorMessage(Last(thrown[c]))>>
           ELSE <<>>
      /\ Len(requests[c]) = 2 <=>
           (thrown[c] # <<>> /\ Class503(thrown[c][1]))

\* C16: two calls on one handler whose steps interleave share no mutable
\* state: a step of one call leaves everything of the other call as it
\* was, and what each call yielded, its summary content and token counts,
\* its error and its retry decision are those of a call alone on the
\* chunks and errors its own streams delivered.
C16_CallsIndependent ==
  /\ [](\A c \in Calls : AsAlone(c))
  /\ [][\A c \in Calls : \A d \in Calls \ {c} :
          CallState(c)' # CallState(c) => CallState(d)' = CallState(d)]_vars

\* Call 1 holds a usage chunk of its primary stream while call 2, whose
\* primary attempt failed with a 503, has consumed a retry chunk.
C16_Witness ==
  /\ pc[1] = "primary"
  /\ log[1] # <<>>
  /\ tokensIn[1] = 5
  /\ pc[2] = "retry"
  /\ rlog[2] # <<>>
  /\ tokensIn[2] = 0
  /\ out[1] # <<>>
  /\ out[2] # <<>>

\* C17: the adapter is demand-driven: a request is submitted, a provider
\* event consumed and a fragment produced only while a request of the
\* caller for the next fragment is unanswered; a yielded fragment answers
\* that request, so nothing more is consumed until the caller asks again;
\* and once the caller has abandoned the iteration no event is consumed, no
\* fragment produced and no retry request issued.
C17_DemandDriven ==
  [][\A c \in Calls :
       /\ ( \/ requests'[c] # requests[c]
            \/ log'[c] # log[c]
            \/ rlog'[c] # rlog[c]
            \/ out'[c] # out[c] ) => demand[c]
       /\ out'[c] # out[c] => ~demand'[c]
       /\ pc[c] = "closed" =>
            /\ pc'[c] = "closed"
            /\ requests'[c] = requests[c]
            /\ log'[c] = log[c]
            /\ rlog'[c] = rlog[c]
            /\ out'[c] = out[c]
            /\ raised'[c] = raised[c]]_vars

\* The caller gave up after the first fragment of a chunk that had two to
\* yield.
C17_Witness ==
  \E c \in Calls :
    /\ pc[c] = "closed"
    /\ Len(out[c]) = 1
    /\ Len(log[c]) = 1
    /\ Len(PrimaryFragmentsOf(log[c])) = 2
    /\ Len(requests[c]) = 1

\* C18: with finite provider streams and a caller that keeps asking, every
\* call comes to an end, after its summary or with an error raised; the
\* sequence is single-pass: once the call has ended no fragment is
\* produced, no event consumed and the call does not run again.
C18_Terminates ==
  /\ \A c \in Calls :
       [](pc[c] # "closed") =>
         ((pc[c] = "created") ~>
            \/ pc[c] = "done" /\ Summaries(out[c]) # <<>>
            \/ pc[c] = "failed" /\ raised[c] # <<>>)
  /\ [][\A c \in Calls :
          pc[c] \in {"done", "failed"} =>
            /\ pc'[c] = pc[c]
            /\ out'[c] = out[c]
            /\ raised'[c] = raised[c]
            /\ log'[c] = log[c]
            /\ rlog'[c] = rlog[c]
            /\ requests'[c] = requests[c]]_vars

\* A call that ended after its summary, having consumed every event the
\* bound allows.
C18_Witness ==
  \E c \in Calls :
    /\ pc[c] = "done"
    /\ IsSummary(Last(out[c]))
    /\ Len(log[c]) + Len(rlog[c]) = MaxEvents
    /\ rlog[c] # <<>>

\* "Targon API error:", the status when the error has one, the message.
Described(e) ==
  <<"Targon API error:">> \o (IF e.status = "" THEN <<>> ELSE <<e.status>>)
    \o e.message

Err503 == Err("503", <<"503", "Service Unavailable">>)

Err401 == Err("401", <<"401", "Unauthorized">>)

\* C19: when the primary attempt fails with a 503-class error and the
\* retry attempt fails too, the one error raised is built from the retry's
\* error: its status, its message and the hint that matches its message,
\* whatever the first error was; a 503 followed by a 401 is reported with
\* the 401 status and the authentication hint, without the server hint.
C19_RetryErrorReported ==
  \A c \in Calls :
    Len(thrown[c]) = 2 =>
      LET e  == thrown[c][2]
          m  == raised[c][1]
          d  == Described(e)
          h  == SubSeq(m, Len(d) + 1, Len(m))
      IN  /\ Class503(thrown[c][1])
          /\ Len(raised[c]) = 1
          /\ IsPrefix(d, m)
          /\ Len(h) <= 1
          /\ h = <<AuthHint>> <=>
               HasToken(e.message, "401") \/ HasToken(e.message, "authentication")
          /\ h = <<ServerHint>> <=>
               /\ \A t \in {"401", "authentication", "403", "404", "429"} :
                    ~HasToken(e.message, t)
               /\ \E t \in {"500", "502", "503"} : HasToken(e.message, t)
          /\ (thrown[c] = <<Err503, Err401>>) =>
               m = <<"Targon API error:", "401", "401", "Unauthorized",
                     AuthHint>>

\* A 503 on the primary attempt, then a 401 on the retry.
C19_Witness ==
  \E c \in Calls :
    /\ thrown[c] = <<Err503, Err401>>
    /\ pc[c] = "failed"
    /\ ~HasToken(raised[c][1], ServerHint)
    /\ HasToken(raised[c][1], AuthHint)

\* C20: on the retry stream only content is extracted: consuming a retry
\* event leaves the token counts as they were and prepares at most the
\* content fragment of its delta, never a tool-call block; so from the
\* retry on the counts, and those of the summary of the retry path, are the
\* ones of the last usage-carrying event of the primary stream, 0 when
\* there was none.
C20_RetryContentOnly ==
  /\ [][\A c \in Calls :
          rlog'[c] # rlog[c] =>
            /\ tokensIn'[c] = tokensIn[c]
            /\ tokensOut'[c] = tokensOut[c]
            /\ pend'[c] = (IF Deltas(<<Last(rlog'[c])>>) = <<>> THEN <<>>
                           ELSE <<ContentFragment(Last(rlog'[c]).delta)>>)
            /\ ToolTexts(pend'[c]) = <<>>]_vars
  /\ [](\A c \in Calls :
          Len(requests[c]) = 2 =>
            /\ tokensIn[c] = LastUsage(log[c]).prompt_tokens
            /\ tokensOut[c] = LastUsage(log[c]).completion_tokens
            /\ ToolTexts(out[c]) = ExpectedOfLog(log[c])
            /\ Summaries(out[c]) # <<>> =>
                 /\ Last(out[c]).json.tokensIn = LastUsage(log[c]).prompt_tokens
                 /\ Last(out[c]).json.tokensOut =
                      LastUsage(log[c]).completion_tokens)

\* The primary stream reported 1 and 1 and failed; the retry stream brought
\* a tool-call delta with usage 9 and 9 and ended: the summary says 1 and 1
\* and no block was yielded for the retry's delta.
C20_Witness ==
  \E c \in Calls :
    /\ pc[c] = "done"
    /\ LastUsage(log[c]) = Usage(1, 1)
    /\ \E i \in 1..Len(rlog[c]) :
         /\ rlog[c][i].usage = Usage(9, 9)
         /\ rlog[c][i].tools # <<>>
    /\ Last(out[c]).json.tokensIn = 1
    /\ Len(ToolTexts(out[c])) = 1

\* C21: the content of a summary fragment is the concatenation, in order,
\* of the texts of the content fragments yielded before it in the call;
\* the tool-call blocks are not in it, and on the retry path it is the
\* deltas yielded from the primary stream before the failure followed by
\* those of the retry stream.
C21_SummaryContent ==
  \A c \in Calls :
    Summaries(out[c]) # <<>> =>
      LET j == Last(out[c]).json IN
        /\ j.content = Join(ContentTexts(Front(out[c])))
        /\ j.content = Join(TextDeltas(log[c])) \o Join(Deltas(rlog[c]))

\* "Hel" and a tool-call block from the primary stream, a 503, "ok" from
\* the retry stream: the summary says "Helok".
C21_Witness ==
  \E c \in Calls :
    /\ Summaries(out[c]) # <<>>
    /\ Len(requests[c]) = 2
    /\ ContentTexts(out[c]) = <<"Hel", "ok">>
    /\ ToolTexts(out[c]) # <<>>
    /\ Last(out[c]).json.content = "Helok"

\* C22: makePromptConcise is idempotent: applied to the system entry it
\* made, once or twice more, it gives that entry again, as the suffix holds
\* a trigger word; the suffix is there at most once.
C22_ConciseIdempotent ==
  \A c \in Calls :
    requests[c] # <<>> =>
      LET once == SystemContent(c) IN
        /\ once = makePromptConcise(args[c].systemPrompt)
        /\ makePromptConcise(once) = once
        /\ makePromptConcise(makePromptConcise(once)) = once
        /\ Len(makePromptConcise(once)) <=
             Len(args[c].systemPrompt) + Len(ConciseSuffix)

\* A prompt without a trigger word went out with the suffix appended.
C22_Witness ==
  \E c \in Calls :
    /\ requests[c] # <<>>
    /\ args[c].systemPrompt = <<"Answer", "questions.">>
    /\ SystemContent(c) = <<"Answer", "questions.">> \o ConciseSuffix
    /\ makePromptConcise(SystemContent(c)) = SystemContent(c)

====
